---- MODULE Spec2Model ----
(***************************************************************************)
(* Build orchestration engine of bedrock-agentic-builder.                  *)
(*                                                                         *)
(* Two parts of the repository are modelled:                               *)
(*   - the Lifecycle API handler (the inline Python of                     *)
(*     cdk/lib/api-gateway-stack.ts): start_build writes the BuildRecord   *)
(*     and starts the Step Functions execution named by build_id;          *)
(*   - the Step Functions state machine 'bedrock-builder-workflow'         *)
(*     (cdk/lib/step-functions-stack.ts): Scout -> Architect ->            *)
(*     PrepareParallelBuilders -> ParallelBuilders (Map) -> Tester ->      *)
(*     TestsPassed? -> {Deployer -> BuildSucceeded | TesterFailed |        *)
(*     MaxIterationsReached? -> {BuildFailed | Architect}}.                *)
(*                                                                         *)
(* The stage Lambdas are opaque: what a stage returns is a                 *)
(* nondeterministic choice over its result envelope {statusCode, body},    *)
(* or the invocation fails (the task raises States.TaskFailed).            *)
(***************************************************************************)
EXTENDS Integers, FiniteSets, Sequences, TLC

---------------------------------------------------------------------------
(* Bounds of the model *)

\* largest number of FileTasks the Splitter returns
MaxFiles == 7
\* cap on the number of Architect/Build/Test cycles one execution is followed for
MaxCycles == 3
\* largest max_iterations value a start request carries
MaxIterInput == 4
\* latest time datetime.utcnow() is followed to
MaxClock == 1
\* largest number of cancel requests followed
MaxCancels == 2
\* largest number of FileTasks per round when cancel requests are followed
MaxFilesApi == 1

\* largest number of records in the table that list_builds is applied to
MaxRecords == 52

\* largest number of FileTasks per round when service exceptions are followed
MaxFilesRun == 3

---------------------------------------------------------------------------
(* Program constants *)

\* sfn.Map 'ParallelBuilders': maxConcurrency
MaxConcurrency == 6
\* Choice 'MaxIterationsReached?': numberGreaterThanEquals(iteration, 3)
IterationLimit == 3
\* start_build: body.get('max_iterations', 3)
DefaultMaxIterations == 3
\* Choice 'TestsPassed?': numberEquals(statusCode, 200)
StatusOk == 200
\* Choice 'TestsPassed?': numberEquals(statusCode, 500)
StatusError == 500
\* list_builds: Limit=50 of table.query and table.scan
QueryLimit == 50
\* retryOnServiceExceptions: retries of a task after a Lambda service exception
MaxAttempts == 6

---------------------------------------------------------------------------
(* Values *)

\* JSON null / attribute not present
Null == [null |-> TRUE]

\* the single build followed; str(uuid4()) of start_build
BuildId == "b1"

\* values str(uuid4()) may take: the build followed and another one
BuildIds == {BuildId, "b2"}

\* status codes the Tester envelope may carry: success (2xx) and fatal (5xx)
StatusCodes == {200, 201, 500, 502}

\* status codes the Scout, Architect and Deployer envelopes may carry
StageStatusCodes == {200, 500}

\* a stage reports a fatal stage error: 5xx
Fatal(res) == res.statusCode >= 500

\* body.get('task') of a start request: missing (None), empty, non-empty
Tasks == {Null, [value |-> ""], [value |-> "hello"]}

\* body.get('mode') of a start request: absent
ModeInputs == {Null}

\* the max_iterations field of a start request: absent (Null) or an integer,
\* which start_build does not validate (negative and zero included)
IterInputs == {Null} \cup {[value |-> i] : i \in -1..MaxIterInput}

\* the status query parameter of a list request: absent, empty, or a status
StatusFilters ==
    {Null, [value |-> ""]} \cup
    {[value |-> s] : s \in {"initiated", "passed", "failed", "cancelled"}}

\* task states of the state machine (LambdaInvoke outside the Map)
TaskStates == {"Scout", "Architect", "PrepareParallelBuilders", "Tester", "Deployer"}

\* Lambda invocations counted per stage
Stages == TaskStates

VARIABLES
    clock,       \* latest value datetime.utcnow() has returned
    cancelPc,    \* position of the cancel_build handler
    cancelLocal, \* local variables of the running cancel_build handler
    cancel2Pc,   \* position of a second, concurrent cancel_build handler
    cancel2Local,\* local variables of the second cancel_build handler
    cancelLog,   \* history: the responses of the cancel requests, in order
    stopRequests,\* history: number of sfn.stop_execution requests sent
    mapFailed,   \* Map state: some result of the round has a status other than success
    table,       \* DynamoDB build state table: build_id -> item
    apiPc,       \* position of the start_build handler
    apiLocal,    \* local variables of the running start_build handler
    response,    \* last HTTP response returned by the API handler
    execStatus,  \* Step Functions execution named BuildId: NONE/RUNNING/SUCCEEDED/FAILED/
                 \* ABORTED/TIMED_OUT
    state,       \* current state of the execution
    data,        \* the execution's state input/output document ($)
    execError,   \* error name of an execution that failed or was stopped, else "none"
    mapNext,     \* Map state: index of the next item to start
    mapRunning,  \* Map state: items whose BuildSingleFile invocation is in flight
    executions,  \* the executions of the state machine, in start order: [name, input]
    readResult,  \* the last get/list request with the response it was given
    calls,       \* history: number of invocations of each stage Lambda
    retries,     \* retries made of the task of the current state after service exceptions
    honest       \* history: every Tester result so far had iteration = cycles run

vars == <<table, apiPc, apiLocal, response, execStatus, state, data, execError,
          mapNext, mapRunning, calls, honest, retries,
          clock, cancelPc, cancelLocal, cancel2Pc, cancel2Local, cancelLog, stopRequests,
          mapFailed,
          executions, readResult>>

startVars == <<apiPc, apiLocal, response>>
cancelVars == <<cancelPc, cancelLocal, cancel2Pc, cancel2Local, cancelLog, stopRequests>>
readVars == <<readResult>>
handlerVars == <<apiPc, apiLocal, response, clock, cancelPc, cancelLocal, cancel2Pc, cancel2Local,
                 cancelLog, stopRequests,
                 executions, readResult>>
apiVars == <<table, apiPc, apiLocal, response, clock, cancelPc, cancelLocal, cancel2Pc, cancel2Local,
             cancelLog, stopRequests,
             executions, readResult>>
execVars == <<execStatus, state, data, execError, mapNext, mapRunning, mapFailed, calls, honest,
              retries,
              executions>>
mapVars == <<mapNext, mapRunning, mapFailed>>

---------------------------------------------------------------------------
(* Build Record Store and Lifecycle API: start_build *)

\* the item start_build puts: status initiated, current_iteration 0,
\* created_at = updated_at = timestamp
NewItem(build_id, task, mode, max_iterations, timestamp) ==
    [build_id |-> build_id,
     task |-> task,
     mode |-> mode,
     status |-> "initiated",
     current_iteration |-> 0,
     max_iterations |-> max_iterations,
     created_at |-> timestamp,
     updated_at |-> timestamp,
     error |-> Null]

\* mutation of TaskIsMissing: only a missing task is rejected (task is None)
TaskIsMissingOnlyNone(task) == task = Null

\* 'if not task': the task is missing or empty
TaskIsMissing(task) == IF task = Null THEN TRUE ELSE task.value = ""

\* body.get('mode', 'new_project')
GetMode(m) == IF m = Null THEN "new_project" ELSE m.value

\* datetime.utcnow()
Now == clock

\* body.get('max_iterations', 3)
\* mutation of GetMaxIterations: the given value is ignored
GetMaxIterationsAlwaysDefault(mi) == DefaultMaxIterations

GetMaxIterations(mi) == IF mi = Null THEN DefaultMaxIterations ELSE mi.value

\* table.put_item(Item=...): writes the item under its key, replacing any item there
PutItem(t, item) ==
    [k \in DOMAIN t \cup {item.build_id} |-> IF k = item.build_id THEN item ELSE t[k]]

\* mutation of UpdateItem: the item is replaced by its key and the named
\* attributes, its other attributes are lost
UpdateItemReplacing(t, id, updates) ==
    LET new == [k \in {"build_id"} \cup DOMAIN updates |->
                   IF k \in DOMAIN updates THEN updates[k] ELSE id]
    IN  [k \in DOMAIN t \cup {id} |-> IF k = id THEN new ELSE t[k]]

\* table.update_item(Key, SET ...): sets the named attributes of the item,
\* leaves its other attributes, and creates the item when there is none
UpdateItem(t, id, updates) ==
    LET old == IF id \in DOMAIN t THEN t[id] ELSE [build_id |-> id]
        new == [k \in DOMAIN old \cup DOMAIN updates |->
                   IF k \in DOMAIN updates THEN updates[k] ELSE old[k]]
    IN  [k \in DOMAIN t \cup {id} |-> IF k = id THEN new ELSE t[k]]

\* the execution input start_build passes to start_execution
ExecutionInput(build_id, task, mode, max_iterations) ==
    [build_id |-> build_id,
     task |-> task,
     mode |-> mode,
     max_iterations |-> max_iterations,
     scout_result |-> Null,
     architect_result |-> Null,
     build_tasks |-> Null,
     builder_results |-> Null,
     tester_result |-> Null,
     deployer_result |-> Null]

\* one more invocation of a stage Lambda
Invoke(c, stage) == [c EXCEPT ![stage] = @ + 1]

Init ==
    /\ table = <<>>
    /\ apiPc = "idle"
    /\ apiLocal = Null
    /\ response = Null
    /\ execStatus = "NONE"
    /\ state = "none"
    /\ data = Null
    /\ execError = "none"
    /\ mapNext = 1
    /\ mapRunning = {}
    /\ calls = [s \in Stages |-> 0]
    /\ honest = TRUE
    /\ retries = 0
    /\ clock = 0
    /\ cancelPc = "idle"
    /\ cancelLocal = Null
    /\ cancel2Pc = "idle"
    /\ cancel2Local = Null
    /\ cancelLog = <<>>
    /\ stopRequests = 0
    /\ mapFailed = FALSE
    /\ executions = <<>>
    /\ readResult = Null

\* start_build with a missing or empty task: 400, nothing written
StartBuildRejected ==
    /\ apiPc = "idle"
    /\ \E task \in Tasks :
        /\ TaskIsMissing(task)
        /\ response' = [statusCode |-> 400, error |-> "task is required"]
    /\ UNCHANGED <<table, apiPc, apiLocal, clock>>
    /\ UNCHANGED cancelVars
    /\ UNCHANGED readVars
    /\ UNCHANGED execVars

\* start_build up to and including put_item, with build_id the value of
\* str(uuid4())
StartBuildPutItemAs(build_id) ==
    /\ apiPc = "idle"
    /\ \E task \in Tasks, m \in ModeInputs, mi \in IterInputs :
        /\ ~TaskIsMissing(task)
        /\ table' = PutItem(table, NewItem(build_id, task.value, GetMode(m),
                                           GetMaxIterations(mi), Now))
        /\ apiLocal' = [build_id |-> build_id, task |-> task.value, mode |-> GetMode(m),
                        max_iterations |-> GetMaxIterations(mi), request |-> mi]
    /\ apiPc' = "start_execution"
    /\ UNCHANGED <<response, clock>>
    /\ UNCHANGED cancelVars
    /\ UNCHANGED readVars
    /\ UNCHANGED execVars

\* start_build of the one build followed: uuid4 gives BuildId, once
StartBuildPutItem ==
    /\ BuildId \notin DOMAIN table
    /\ StartBuildPutItemAs(BuildId)

\* start_build where uuid4 gives an id no record has yet
StartBuildPutItemNew ==
    \E build_id \in BuildIds \ DOMAIN table : StartBuildPutItemAs(build_id)

\* start_build where uuid4 gives any id, the id of an existing record included
StartBuildPutItemAny ==
    \E build_id \in BuildIds : StartBuildPutItemAs(build_id)

\* mutation of ExecutionName: every execution gets the same name
ExecutionNameFixed(build_id) == "build"

\* start_execution(name=build_id)
ExecutionName(build_id) == build_id

\* the names of the executions of the state machine
ExecutionNames(execs) == {execs[i].name : i \in 1..Len(execs)}

\* start_build: sfn.start_execution(name=build_id, input=...) succeeds; 202.
\* The state machine has no execution of that name yet. The execution enters
\* its first state, Scout, and invokes the Scout Lambda; the run of the
\* execution of BuildId is the one followed state by state.
StartExecution ==
    /\ apiPc = "start_execution"
    /\ ExecutionName(apiLocal.build_id) \notin ExecutionNames(executions)
    /\ executions' = Append(executions,
                            [name |-> ExecutionName(apiLocal.build_id),
                             input |-> ExecutionInput(apiLocal.build_id, apiLocal.task,
                                                      apiLocal.mode, apiLocal.max_iterations)])
    /\ IF apiLocal.build_id = BuildId
         THEN /\ execStatus' = "RUNNING"
              /\ state' = "Scout"
              /\ data' = ExecutionInput(apiLocal.build_id, apiLocal.task, apiLocal.mode,
                                        apiLocal.max_iterations)
              /\ calls' = Invoke(calls, "Scout")
         ELSE UNCHANGED <<execStatus, state, data, calls>>
    /\ response' = [statusCode |-> 202, build_id |-> apiLocal.build_id, status |-> "initiated"]
    /\ apiPc' = "idle"
    /\ apiLocal' = Null
    /\ UNCHANGED <<table, clock, execError, mapNext, mapRunning, mapFailed, honest, retries>>
    /\ UNCHANGED cancelVars
    /\ UNCHANGED readVars

\* mutation of StartFailedUpdate: only the error is written
StartFailedUpdateErrorOnly == [error |-> [message |-> "start_execution"]]

\* start_build, except branch: SET #status = :status, error = :error
StartFailedUpdate == [status |-> "failed", error |-> [message |-> "start_execution"]]

\* start_build: start_execution raises; the record is marked failed; 500
StartExecutionFails ==
    /\ apiPc = "start_execution"
    /\ table' = UpdateItem(table, apiLocal.build_id, StartFailedUpdate)
    /\ response' = [statusCode |-> 500, build_id |-> apiLocal.build_id, status |-> "failed"]
    /\ apiPc' = "idle"
    /\ apiLocal' = Null
    /\ UNCHANGED clock
    /\ UNCHANGED cancelVars
    /\ UNCHANGED readVars
    /\ UNCHANGED execVars

\* start_build: sfn.start_execution(name=build_id, input=...) names a running
\* execution that was started with the same input: the request succeeds
\* without starting another execution; 202
StartExecutionAgain ==
    /\ apiPc = "start_execution"
    /\ \E i \in 1..Len(executions) :
         /\ executions[i].name = ExecutionName(apiLocal.build_id)
         /\ executions[i].input = ExecutionInput(apiLocal.build_id, apiLocal.task,
                                                 apiLocal.mode, apiLocal.max_iterations)
    /\ (apiLocal.build_id = BuildId) => (execStatus = "RUNNING")
    /\ response' = [statusCode |-> 202, build_id |-> apiLocal.build_id, status |-> "initiated"]
    /\ apiPc' = "idle"
    /\ apiLocal' = Null
    /\ UNCHANGED <<table, clock>>
    /\ UNCHANGED cancelVars
    /\ UNCHANGED readVars
    /\ UNCHANGED execVars

---------------------------------------------------------------------------
(* Lifecycle API: get_build_status and list_builds *)

\* mutation of GetResponse: only the key and the status of the item are returned
GetResponseKeyAndStatus(t, build_id) ==
    IF build_id \in DOMAIN t
      THEN [statusCode |-> 200,
            item |-> [build_id |-> build_id, status |-> t[build_id].status]]
      ELSE [statusCode |-> 404, error |-> "Build not found"]

\* get_build_status: get_item by build_id; 404 when there is no item,
\* otherwise 200 with the item
GetResponse(t, build_id) ==
    IF build_id \in DOMAIN t
      THEN [statusCode |-> 200, item |-> t[build_id]]
      ELSE [statusCode |-> 404, error |-> "Build not found"]

\* GET /build/{id}
GetBuildStatus ==
    /\ \E build_id \in BuildIds :
         readResult' = [op |-> "get", build_id |-> build_id,
                        response |-> GetResponse(table, build_id)]
    /\ UNCHANGED <<table, apiPc, apiLocal, response, clock, executions>>
    /\ UNCHANGED cancelVars
    /\ UNCHANGED <<execStatus, state, data, execError, mapNext, mapRunning, mapFailed,
                   calls, honest, retries>>

\* the first n elements of a sequence
Take(seq, n) == SubSeq(seq, 1, IF Len(seq) < n THEN Len(seq) ELSE n)

\* status-index: the items that have both key attributes, under the given
\* partition key (status)
StatusIndex(t, status) ==
    {id \in DOMAIN t :
        IF {"status", "created_at"} \subseteq DOMAIN t[id]
          THEN t[id].status = status
          ELSE FALSE}

\* mutation of ScanIndexForward: the parameter is left at its default
ScanIndexForwardDefault == TRUE

\* ScanIndexForward=False
ScanIndexForward == FALSE

\* the items by sort key (created_at), ascending when the index is read
\* forward and descending otherwise; items with equal created_at in an order
\* the index chooses
RECURSIVE SortByCreatedAt(_, _, _)
SortByCreatedAt(t, ids, forward) ==
    IF ids = {} THEN <<>>
    ELSE LET first == CHOOSE x \in ids : \A y \in ids :
                          IF forward THEN t[x].created_at <= t[y].created_at
                                     ELSE t[y].created_at <= t[x].created_at
         IN  <<t[first]>> \o SortByCreatedAt(t, ids \ {first}, forward)

\* table.query(IndexName='status-index', #status = :status,
\*             ScanIndexForward=False, Limit=50)
Query(t, status) ==
    Take(SortByCreatedAt(t, StatusIndex(t, status), ScanIndexForward), QueryLimit)

\* the items of the table in an order the table chooses
RECURSIVE ScanOrder(_, _)
ScanOrder(t, ids) ==
    IF ids = {} THEN <<>>
    ELSE LET first == CHOOSE x \in ids : TRUE
         IN  <<t[first]>> \o ScanOrder(t, ids \ {first})

\* table.scan(Limit=50)
Scan(t) == Take(ScanOrder(t, DOMAIN t), QueryLimit)

\* list_builds: query when a status filter is given ('if status_filter'),
\* scan otherwise; count is the number of items returned
ListResponse(t, filter) ==
    LET items == IF filter = Null THEN Scan(t)
                 ELSE IF filter.value = "" THEN Scan(t)
                 ELSE Query(t, filter.value)
    IN  [statusCode |-> 200, builds |-> items, count |-> Len(items)]

\* GET /builds
ListBuilds ==
    /\ \E filter \in StatusFilters :
         readResult' = [op |-> "list", filter |-> filter,
                        response |-> ListResponse(table, filter)]
    /\ UNCHANGED <<table, apiPc, apiLocal, response, clock, executions>>
    /\ UNCHANGED cancelVars
    /\ UNCHANGED <<execStatus, state, data, execError, mapNext, mapRunning, mapFailed,
                   calls, honest, retries>>

---------------------------------------------------------------------------
(* Step Functions state machine 'bedrock-builder-workflow' *)

Running == execStatus = "RUNNING"

\* iteration numbers a Tester result may carry
Iterations == 1..MaxCycles

\* a Fail state, or a task failure no state catches: the execution ends FAILED
FailExecution(error) ==
    /\ execStatus' = "FAILED"
    /\ execError' = error

\* the Orchestrator records a terminal outcome in the Build Record:
\* update(build_id, {status, error}), updated_at refreshed as on every mutation
RecordOutcome(t, id, status, error) ==
    [t EXCEPT ![id] = [@ EXCEPT !.status = status, !.error = error, !.updated_at = Now]]

\* status values a BuildSingleFile result may carry
BuilderStatuses == {"success", "failed"}

\* Scout returns its envelope; resultPath $.scout_result; .next(architectTask)
ScoutReturns ==
    /\ Running
    /\ state = "Scout"
    /\ \E sc \in StageStatusCodes :
        data' = [data EXCEPT !.scout_result = [statusCode |-> sc]]
    /\ state' = "Architect"
    /\ calls' = Invoke(calls, "Architect")
    /\ UNCHANGED <<execStatus, execError, mapNext, mapRunning, mapFailed, honest>>
    /\ retries' = 0
    /\ UNCHANGED apiVars

\* Architect returns its envelope; resultPath $.architect_result; .next(orchestratorTask)
ArchitectReturns ==
    /\ Running
    /\ state = "Architect"
    /\ \E sc \in StageStatusCodes :
        data' = [data EXCEPT !.architect_result = [statusCode |-> sc]]
    /\ state' = "PrepareParallelBuilders"
    /\ calls' = Invoke(calls, "PrepareParallelBuilders")
    /\ UNCHANGED <<execStatus, execError, mapNext, mapRunning, mapFailed, honest>>
    /\ retries' = 0
    /\ UNCHANGED apiVars

\* the Splitter returns {tasks, total_files}; resultPath $.build_tasks;
\* .next(parallelBuilders): the Map state starts with no iteration started
PrepareParallelBuildersReturns ==
    /\ Running
    /\ state = "PrepareParallelBuilders"
    /\ \E n \in 0..MaxFiles :
        data' = [data EXCEPT !.build_tasks = [total_files |-> n]]
    /\ state' = "ParallelBuilders"
    /\ mapNext' = 1
    /\ mapRunning' = {}
    /\ mapFailed' = FALSE
    /\ UNCHANGED <<execStatus, execError, calls, honest>>
    /\ retries' = 0
    /\ UNCHANGED apiVars

\* mutation of MapHasCapacity: maxConcurrency left out (0 = no limit)
MapHasCapacityUnlimited(running) == TRUE

\* Map: an iteration may start while fewer than maxConcurrency are running
MapHasCapacity(running) == Cardinality(running) < MaxConcurrency

\* Map: the next item of $.build_tasks.tasks starts; BuildSingleFile is invoked
MapStartItem ==
    /\ Running
    /\ state = "ParallelBuilders"
    /\ mapNext <= data.build_tasks.total_files
    /\ MapHasCapacity(mapRunning)
    /\ mapRunning' = mapRunning \cup {mapNext}
    /\ mapNext' = mapNext + 1
    /\ UNCHANGED <<execStatus, state, data, execError, mapFailed, calls, honest, retries>>
    /\ UNCHANGED apiVars

\* Map: one BuildSingleFile invocation returns {file_path, status}; the
\* iteration's output is kept, whatever its status
BuilderReturns ==
    /\ Running
    /\ state = "ParallelBuilders"
    /\ \E i \in mapRunning, status \in BuilderStatuses :
        /\ mapRunning' = mapRunning \ {i}
        /\ mapFailed' = (mapFailed \/ status # "success")
    /\ UNCHANGED <<execStatus, state, data, execError, mapNext, calls, honest, retries>>
    /\ UNCHANGED apiVars

\* Map: one BuildSingleFile invocation fails; the Map state fails, the other
\* iterations are stopped and the execution fails. The failing function may
\* have recorded the failure before it raised, or not (a timeout)
BuilderFails ==
    /\ Running
    /\ state = "ParallelBuilders"
    /\ mapRunning # {}
    /\ mapRunning' = {}
    /\ FailExecution("States.TaskFailed")
    /\ \E recorded \in BOOLEAN :
         table' = IF recorded
                    THEN RecordOutcome(table, data.build_id, "failed",
                                       [message |-> "States.TaskFailed"])
                    ELSE table
    /\ UNCHANGED <<state, data, mapNext, mapFailed, calls, honest, retries>>
    /\ UNCHANGED handlerVars

\* mutation of MapDone: the round ends once every item has been started
MapDoneAllStarted(next, running, total) == next > total

\* Map: every item has been started and none is still running
MapDone(next, running, total) == next > total /\ running = {}

\* Map: every item has returned; resultPath $.builder_results (the list of
\* {file_path, status}, which no state reads); .next(testerTask)
MapCompletes ==
    /\ Running
    /\ state = "ParallelBuilders"
    /\ MapDone(mapNext, mapRunning, data.build_tasks.total_files)
    /\ data' = [data EXCEPT !.builder_results = [results |-> TRUE]]
    /\ mapFailed' = FALSE
    /\ state' = "Tester"
    /\ calls' = Invoke(calls, "Tester")
    /\ UNCHANGED <<execStatus, execError, mapNext, mapRunning, honest, retries>>
    /\ UNCHANGED apiVars

\* Tester returns {statusCode, body: {tests_passed, iteration}};
\* resultPath $.tester_result; .next(testsPassed)
TesterReturns ==
    /\ Running
    /\ state = "Tester"
    /\ \E sc \in StatusCodes, tp \in BOOLEAN, it \in Iterations :
        /\ data' = [data EXCEPT !.tester_result =
                      [statusCode |-> sc, body |-> [tests_passed |-> tp, iteration |-> it]]]
        /\ honest' = (honest /\ it = calls["Tester"])
    /\ state' = "TestsPassed?"
    /\ UNCHANGED <<execStatus, execError, mapNext, mapRunning, mapFailed, calls>>
    /\ retries' = 0
    /\ UNCHANGED apiVars

\* Choice 'TestsPassed?', first rule: statusCode = 200 and tests_passed = true
TestsPassedRule(d) ==
    /\ d.tester_result.statusCode = StatusOk
    /\ d.tester_result.body.tests_passed = TRUE

\* Choice 'TestsPassed?', second rule: statusCode = 500
TesterFailedRule(d) == d.tester_result.statusCode = StatusError

\* mutation of MaxIterationsReachedRule: the limit itself is not enough
MaxIterationsReachedRuleAbove(d) == d.tester_result.body.iteration > IterationLimit

\* Choice 'MaxIterationsReached?': iteration >= 3
MaxIterationsReachedRule(d) == d.tester_result.body.iteration >= IterationLimit

\* Choice 'TestsPassed?': the first rule that matches decides
TestsPassedChoice ==
    /\ Running
    /\ state = "TestsPassed?"
    /\ IF TestsPassedRule(data)
         THEN /\ state' = "Deployer"
              /\ calls' = Invoke(calls, "Deployer")
              /\ UNCHANGED <<execStatus, execError, table>>
         ELSE IF TesterFailedRule(data)
         THEN /\ state' = "TesterFailed"
              /\ FailExecution("TesterLambdaError")
              /\ table' = RecordOutcome(table, data.build_id, "failed",
                                        [message |-> "TesterLambdaError"])
              /\ UNCHANGED calls
         ELSE /\ state' = "MaxIterationsReached?"
              /\ UNCHANGED <<execStatus, execError, calls, table>>
    /\ UNCHANGED <<data, mapNext, mapRunning, mapFailed, honest, retries>>
    /\ UNCHANGED handlerVars

\* mutation of SelfHealingTarget: the loop re-enters at Scout
SelfHealingTargetScout == "Scout"

\* Choice 'MaxIterationsReached?': .otherwise(architectTask)
SelfHealingTarget == "Architect"

\* Choice 'MaxIterationsReached?': BuildFailed, otherwise back to Architect
MaxIterationsReachedChoice ==
    /\ Running
    /\ state = "MaxIterationsReached?"
    /\ IF MaxIterationsReachedRule(data)
         THEN /\ state' = "BuildFailed"
              /\ FailExecution("MaxIterationsReached")
              /\ table' = RecordOutcome(table, data.build_id, "failed",
                                        [message |-> "MaxIterationsReached"])
              /\ UNCHANGED calls
         ELSE /\ calls["Architect"] < MaxCycles
              /\ state' = SelfHealingTarget
              /\ calls' = Invoke(calls, SelfHealingTarget)
              /\ UNCHANGED <<execStatus, execError, table>>
    /\ UNCHANGED <<data, mapNext, mapRunning, mapFailed, honest, retries>>
    /\ UNCHANGED handlerVars

\* Deployer returns its envelope; resultPath $.deployer_result;
\* .next(Succeed 'BuildSucceeded')
DeployerReturns ==
    /\ Running
    /\ state = "Deployer"
    /\ \E sc \in StageStatusCodes :
        data' = [data EXCEPT !.deployer_result = [statusCode |-> sc]]
    /\ state' = "BuildSucceeded"
    /\ execStatus' = "SUCCEEDED"
    /\ table' = RecordOutcome(table, data.build_id, "passed", table[data.build_id].error)
    /\ UNCHANGED <<execError, mapNext, mapRunning, mapFailed, calls, honest>>
    /\ retries' = 0
    /\ UNCHANGED handlerVars

\* a LambdaInvoke task fails (the function raises or times out); no state
\* catches it: the execution fails. The failing function may have recorded
\* the failure before it raised, or not
TaskFails ==
    /\ Running
    /\ state \in TaskStates
    /\ FailExecution("States.TaskFailed")
    /\ \E recorded \in BOOLEAN :
         table' = IF recorded
                    THEN RecordOutcome(table, data.build_id, "failed",
                                       [message |-> "States.TaskFailed"])
                    ELSE table
    /\ UNCHANGED <<state, data, mapNext, mapRunning, mapFailed, calls, honest, retries>>
    /\ UNCHANGED handlerVars

\* retryOnServiceExceptions: true. The invocation of the task of the current
\* state meets a Lambda service exception: the task is retried, and after
\* MaxAttempts retries the error is not caught and the execution fails. The
\* function did not run, nothing is written
TaskServiceException ==
    /\ Running
    /\ state \in TaskStates
    /\ IF retries < MaxAttempts
         THEN /\ retries' = retries + 1
              /\ UNCHANGED <<execStatus, execError>>
         ELSE /\ FailExecution("Lambda.ServiceException")
              /\ UNCHANGED retries
    /\ UNCHANGED <<state, data, mapNext, mapRunning, mapFailed, calls, honest>>
    /\ UNCHANGED apiVars

\* mutation of ExecutionTimesOut: the state machine has no timeout
ExecutionNeverTimesOut == FALSE /\ UNCHANGED vars

\* stateMachine timeout (2 hours): a running execution is ended TIMED_OUT,
\* whatever state it is in; nothing is written to the record
ExecutionTimesOut ==
    /\ Running
    /\ execStatus' = "TIMED_OUT"
    /\ execError' = "States.Timeout"
    /\ mapRunning' = {}
    /\ UNCHANGED <<state, data, mapNext, mapFailed, calls, honest, retries>>
    /\ UNCHANGED apiVars

---------------------------------------------------------------------------
(* Lifecycle API: cancel_build, and the passing of time *)

\* mutation of CancelTerminal: a cancelled build may be cancelled again
CancelTerminalWithoutCancelled == {"completed", "failed"}

\* the statuses cancel_build refuses to cancel
CancelTerminal == {"completed", "cancelled", "failed"}

\* mutation of CancelCheck: the existence check is left out
CancelCheckNoExistence(t, id) ==
    IF id \in DOMAIN t /\ t[id].status \in CancelTerminal THEN "invalid_state" ELSE "proceed"

\* cancel_build after get_item: 404 without an item, 400 for a status it
\* refuses, otherwise it goes on to stop the execution
CancelCheck(t, id) ==
    IF id \notin DOMAIN t THEN "not_found"
    ELSE IF t[id].status \in CancelTerminal THEN "invalid_state"
    ELSE "proceed"

\* the response cancel_build returns, with the outcome of its stop request
CancelResponse(code, stop) == [statusCode |-> code, stop |-> stop]

\* cancel_build: get_item and the two checks
CancelGetItemBy(pc, local) ==
    /\ pc = "idle"
    /\ Len(cancelLog) < MaxCancels
    /\ LET check == CancelCheck(table, BuildId) IN
         IF check = "not_found"
         THEN /\ cancelLog' = Append(cancelLog, CancelResponse(404, "none"))
              /\ UNCHANGED <<pc, local>>
         ELSE IF check = "invalid_state"
         THEN /\ cancelLog' = Append(cancelLog, CancelResponse(400, "none"))
              /\ UNCHANGED <<pc, local>>
         ELSE /\ pc' = "stop_execution"
              /\ local' = [build_id |-> BuildId,
                            current_status |-> IF BuildId \in DOMAIN table
                                                 THEN table[BuildId].status
                                                 ELSE "unknown"]
              /\ UNCHANGED cancelLog
    /\ UNCHANGED <<table, clock, stopRequests>>
    /\ UNCHANGED startVars
    /\ UNCHANGED readVars
    /\ UNCHANGED execVars

\* cancel_build, get_item and the two checks: the handler of one request
CancelGetItem ==
    /\ CancelGetItemBy(cancelPc, cancelLocal)
    /\ UNCHANGED <<cancel2Pc, cancel2Local>>

\* cancel_build, get_item and the two checks: the handler of a second request that runs at
\* the same time
SecondCancelGetItem ==
    /\ CancelGetItemBy(cancel2Pc, cancel2Local)
    /\ UNCHANGED <<cancelPc, cancelLocal>>

\* mutation of StopOutcomes: a stop request for an execution that does not
\* exist is accepted
StopOutcomesAcceptingUnknown(es) ==
    IF es = "RUNNING" THEN {"stopped", "error"}
    ELSE {"stopped", "ExecutionDoesNotExist", "error"}

\* what sfn.stop_execution may answer for the execution named by build_id:
\* no such execution; a running one is stopped; for one that has ended the
\* request is accepted without effect, or the execution is reported gone;
\* any other service error
StopOutcomes(es) ==
    IF es = "NONE" THEN {"ExecutionDoesNotExist", "error"}
    ELSE IF es = "RUNNING" THEN {"stopped", "error"}
    ELSE {"stopped", "ExecutionDoesNotExist", "error"}

\* mutation of StopErrorStatus: every failed stop request is answered 500
StopErrorStatusAlways500(outcome) == 500

\* the status cancel_build answers when the stop request raises:
\* 400 for ExecutionDoesNotExist, 500 for any other exception
StopErrorStatus(outcome) ==
    IF outcome = "ExecutionDoesNotExist" THEN 400 ELSE 500

\* cancel_build: sfn.stop_execution(executionArn, error='UserCancelled')
CancelStopExecutionBy(pc, local) ==
    /\ pc = "stop_execution"
    /\ stopRequests' = stopRequests + 1
    /\ \E outcome \in StopOutcomes(execStatus) :
         IF outcome = "stopped"
         THEN /\ IF Running
                   THEN /\ execStatus' = "ABORTED"
                        /\ execError' = "UserCancelled"
                        /\ mapRunning' = {}
                   ELSE UNCHANGED <<execStatus, execError, mapRunning>>
              /\ pc' = "update_item"
              /\ UNCHANGED <<local, cancelLog>>
         ELSE /\ cancelLog' = Append(cancelLog,
                     CancelResponse(StopErrorStatus(outcome), outcome))
              /\ pc' = "idle"
              /\ local' = Null
              /\ UNCHANGED <<execStatus, execError, mapRunning>>
    /\ UNCHANGED <<state, data, mapNext, mapFailed, calls, honest, retries, executions>>
    /\ UNCHANGED <<table, clock>>
    /\ UNCHANGED startVars
    /\ UNCHANGED readVars

\* cancel_build, stop_execution: the handler of one request
CancelStopExecution ==
    /\ CancelStopExecutionBy(cancelPc, cancelLocal)
    /\ UNCHANGED <<cancel2Pc, cancel2Local>>

\* cancel_build, stop_execution: the handler of a second request that runs at
\* the same time
SecondCancelStopExecution ==
    /\ CancelStopExecutionBy(cancel2Pc, cancel2Local)
    /\ UNCHANGED <<cancelPc, cancelLocal>>

\* mutation of CancelledUpdate: updated_at is not refreshed
CancelledUpdateStatusOnly(now) == [status |-> "cancelled"]

\* cancel_build: SET #status = :status, updated_at = :updated_at
CancelledUpdate(now) == [status |-> "cancelled", updated_at |-> now]

\* cancel_build: update_item after the stop request was accepted; 200
CancelUpdateItemBy(pc, local) ==
    /\ pc = "update_item"
    /\ table' = UpdateItem(table, local.build_id, CancelledUpdate(Now))
    /\ cancelLog' = Append(cancelLog, CancelResponse(200, "stopped"))
    /\ pc' = "idle"
    /\ local' = Null
    /\ UNCHANGED <<clock, stopRequests>>
    /\ UNCHANGED startVars
    /\ UNCHANGED readVars
    /\ UNCHANGED execVars

\* cancel_build, update_item: the handler of one request
CancelUpdateItem ==
    /\ CancelUpdateItemBy(cancelPc, cancelLocal)
    /\ UNCHANGED <<cancel2Pc, cancel2Local>>

\* cancel_build, update_item: the handler of a second request that runs at
\* the same time
SecondCancelUpdateItem ==
    /\ CancelUpdateItemBy(cancel2Pc, cancel2Local)
    /\ UNCHANGED <<cancelPc, cancelLocal>>

\* time passes
Tick ==
    /\ clock < MaxClock
    /\ clock' = clock + 1
    /\ UNCHANGED <<table, apiPc, apiLocal, response>>
    /\ UNCHANGED cancelVars
    /\ UNCHANGED readVars
    /\ UNCHANGED execVars

\* a start request that leaves max_iterations to its default
StartBuildPutItemDefault ==
    /\ StartBuildPutItem
    /\ apiLocal'.request = Null

\* a Tester that answers 200 or 500 and reports the cycle it ran in
TesterReportsCycle ==
    /\ TesterReturns
    /\ data'.tester_result.statusCode \in StageStatusCodes
    /\ honest'

\* a round of at most MaxFilesApi FileTasks
PrepareSmallRound ==
    /\ PrepareParallelBuildersReturns
    /\ data'.build_tasks.total_files <= MaxFilesApi

---------------------------------------------------------------------------

Next ==
    \/ StartBuildRejected
    \/ StartBuildPutItem
    \/ StartExecution
    \/ StartExecutionFails
    \/ ScoutReturns
    \/ ArchitectReturns
    \/ PrepareParallelBuildersReturns
    \/ MapStartItem
    \/ BuilderReturns
    \/ BuilderFails
    \/ MapCompletes
    \/ TesterReturns
    \/ TestsPassedChoice
    \/ MaxIterationsReachedChoice
    \/ DeployerReturns
    \/ TaskFails

Spec == Init /\ [][Next]_vars

\* the API handlers (start, cancel) running against the workflow
NextApi ==
    \/ StartBuildRejected
    \/ StartBuildPutItemDefault
    \/ StartExecution
    \/ StartExecutionFails
    \/ CancelGetItem
    \/ CancelStopExecution
    \/ CancelUpdateItem
    \/ Tick
    \/ ScoutReturns
    \/ ArchitectReturns
    \/ PrepareSmallRound
    \/ MapStartItem
    \/ BuilderReturns
    \/ BuilderFails
    \/ MapCompletes
    \/ TesterReportsCycle
    \/ TestsPassedChoice
    \/ MaxIterationsReachedChoice
    \/ DeployerReturns
    \/ TaskFails

SpecApi == Init /\ [][NextApi]_vars

\* a start request with a new id that leaves max_iterations to its default
StartBuildPutItemNewDefault ==
    /\ StartBuildPutItemNew
    /\ apiLocal'.request = Null

\* start, get, list and cancel running against a store of several builds
NextStore ==
    \/ StartBuildRejected
    \/ StartBuildPutItemNewDefault
    \/ StartExecution
    \/ StartExecutionFails
    \/ GetBuildStatus
    \/ ListBuilds
    \/ CancelGetItem
    \/ CancelStopExecution
    \/ CancelUpdateItem
    \/ Tick

SpecStore == Init /\ [][NextStore]_vars

\* a start request with any id that leaves max_iterations to its default
StartBuildPutItemAnyDefault ==
    /\ StartBuildPutItemAny
    /\ apiLocal'.request = Null

\* start requests whose uuid4 value may be the id of an existing record
NextCollide ==
    \/ StartBuildRejected
    \/ StartBuildPutItemAnyDefault
    \/ StartExecution
    \/ StartExecutionAgain
    \/ StartExecutionFails
    \/ GetBuildStatus
    \/ Tick

SpecCollide == Init /\ [][NextCollide]_vars

\* the ways the statuses of the records of a table are laid out: all failed,
\* two statuses alternating, three statuses in turn, all failed but the first
StatusLayouts == 1..4

StatusInLayout(layout, i) ==
    IF layout = 1 THEN "failed"
    ELSE IF layout = 2 THEN (IF i % 2 = 0 THEN "failed" ELSE "passed")
    ELSE IF layout = 3 THEN (IF i % 3 = 0 THEN "initiated"
                             ELSE IF i % 3 = 1 THEN "failed" ELSE "cancelled")
    ELSE (IF i = 1 THEN "passed" ELSE "failed")

\* the ways the creation times of the records are laid out: in the order of
\* the keys, against it, with equal times, scattered
TimeLayouts == 1..4

TimeInLayout(layout, i, n) ==
    IF layout = 1 THEN i
    ELSE IF layout = 2 THEN n - i
    ELSE IF layout = 3 THEN i % 4
    ELSE (i * 7) % 11

\* a table of n records as start_build created them at their creation times,
\* each with the status a run or a cancel left it in
StoredTable(n, statusLayout, timeLayout) ==
    [i \in 1..n |->
        [NewItem(i, "hello", "new_project", DefaultMaxIterations,
                 TimeInLayout(timeLayout, i, n))
            EXCEPT !.status = StatusInLayout(statusLayout, i)]]

\* list_builds applied to a table of up to MaxRecords records
InitList ==
    /\ \E n \in 0..MaxRecords, statusLayout \in StatusLayouts, timeLayout \in TimeLayouts :
         table = StoredTable(n, statusLayout, timeLayout)
    /\ apiPc = "idle"
    /\ apiLocal = Null
    /\ response = Null
    /\ execStatus = "NONE"
    /\ state = "none"
    /\ data = Null
    /\ execError = "none"
    /\ mapNext = 1
    /\ mapRunning = {}
    /\ calls = [s \in Stages |-> 0]
    /\ honest = TRUE
    /\ retries = 0
    /\ clock = 0
    /\ cancelPc = "idle"
    /\ cancelLocal = Null
    /\ cancel2Pc = "idle"
    /\ cancel2Local = Null
    /\ cancelLog = <<>>
    /\ stopRequests = 0
    /\ mapFailed = FALSE
    /\ executions = <<>>
    /\ readResult = Null

NextList == ListBuilds

SpecList == InitList /\ [][NextList]_vars

\* a step of the execution in which every stage invocation returns
RunStep ==
    \/ ScoutReturns
    \/ ArchitectReturns
    \/ PrepareSmallRound
    \/ MapStartItem
    \/ BuilderReturns
    \/ MapCompletes
    \/ TesterReturns
    \/ TestsPassedChoice
    \/ MaxIterationsReachedChoice
    \/ DeployerReturns

\* one start request and its execution, every stage invocation returning
NextLive ==
    \/ StartBuildPutItemDefault
    \/ StartExecution
    \/ StartExecutionFails
    \/ RunStep
    \/ ExecutionTimesOut

\* Step Functions keeps taking the steps of a running execution, and ends it
\* when the timeout of the state machine has passed
SpecLive ==
    /\ Init
    /\ [][NextLive]_vars
    /\ WF_vars(RunStep)
    /\ WF_vars(ExecutionTimesOut)

\* a round of at most MaxFilesRun FileTasks
PrepareMediumRound ==
    /\ PrepareParallelBuildersReturns
    /\ data'.build_tasks.total_files <= MaxFilesRun

\* one start request and its execution, with task failures and service
\* exceptions of the stage invocations
NextRun ==
    \/ StartBuildPutItemDefault
    \/ StartExecution
    \/ StartExecutionFails
    \/ ScoutReturns
    \/ ArchitectReturns
    \/ PrepareMediumRound
    \/ MapStartItem
    \/ BuilderReturns
    \/ BuilderFails
    \/ MapCompletes
    \/ TesterReturns
    \/ TestsPassedChoice
    \/ MaxIterationsReachedChoice
    \/ DeployerReturns
    \/ TaskFails
    \/ TaskServiceException

SpecRun == Init /\ [][NextRun]_vars

\* one start request, its execution up to the Architect stage, and two cancel
\* requests for the build that may run at the same time
NextCancels ==
    \/ StartBuildPutItemDefault
    \/ StartExecution
    \/ StartExecutionFails
    \/ ScoutReturns
    \/ TaskFails
    \/ CancelGetItem
    \/ CancelStopExecution
    \/ CancelUpdateItem
    \/ SecondCancelGetItem
    \/ SecondCancelStopExecution
    \/ SecondCancelUpdateItem
    \/ Tick

SpecCancels == Init /\ [][NextCancels]_vars

---------------------------------------------------------------------------
(* Properties *)

\* the latest Tester result of a running decision
TesterResult == data.tester_result

\* the execution stands at one of the two Choice states of the Decision step
AtDecision == Running /\ state \in {"TestsPassed?", "MaxIterationsReached?"}

\* C1: with max_iterations = M >= 1 and a Tester whose iteration is the number
\* of cycles run so far, the Architect stage is invoked at most M times in one
\* execution (with M = 1: never a second time).
C1_ArchitectAtMostMaxIterations ==
    (execStatus # "NONE" /\ honest /\ data.max_iterations >= 1)
        => calls["Architect"] <= data.max_iterations

\* C2: at the Decision step, a Tester result that is not fatal, has
\* tests_passed = false and iteration >= the build's max_iterations (any
\* value >= 1 given at start) ends the execution failed with
\* MaxIterationsReached, and Architect is not invoked again.
C2_ExhaustedEndsMaxIterationsReached ==
    [][(/\ AtDecision
        /\ data.max_iterations >= 1
        /\ ~Fatal(TesterResult)
        /\ TesterResult.body.tests_passed = FALSE
        /\ TesterResult.body.iteration >= data.max_iterations
        /\ state' # state)
       => (/\ state' \in {"MaxIterationsReached?", "BuildFailed"}
           /\ state' = "BuildFailed" => (execStatus' = "FAILED" /\ execError' = "MaxIterationsReached")
           /\ calls'["Architect"] = calls["Architect"])]_vars

\* C3: at the Decision step, a Tester result that is not fatal, has
\* tests_passed = false and iteration < the build's max_iterations does not
\* fail the execution: the next stage invoked is Architect.
C3_RemainingIterationsRetry ==
    [][(/\ AtDecision
        /\ ~Fatal(TesterResult)
        /\ TesterResult.body.tests_passed = FALSE
        /\ TesterResult.body.iteration < data.max_iterations
        /\ state' # state)
       => (/\ execStatus' = "RUNNING"
           /\ state' \in {"MaxIterationsReached?", "Architect"}
           /\ state' = "Architect" => calls'["Architect"] = calls["Architect"] + 1)]_vars

\* C4: a Tester result with a fatal status code (any 5xx) ends the execution
\* failed with TesterLambdaError, whatever tests_passed and iteration are; the
\* iteration check is not consulted, Architect and Deployer are not invoked.
C4_FatalTesterEndsTesterLambdaError ==
    [][(/\ Running
        /\ state = "TestsPassed?"
        /\ Fatal(TesterResult)
        /\ state' # state)
       => (/\ state' = "TesterFailed"
           /\ execStatus' = "FAILED"
           /\ execError' = "TesterLambdaError"
           /\ calls' = calls)]_vars

\* C5: Deployer is invoked exactly when the latest Tester result is not fatal
\* and has tests_passed = true, whatever the non-fatal status code, and at
\* most once per execution.
C5_DeployerExactlyWhenTestsPassed ==
    /\ [][(/\ Running
           /\ state = "TestsPassed?"
           /\ state' # state)
          => ((state' = "Deployer" /\ calls'["Deployer"] = calls["Deployer"] + 1)
                <=> (~Fatal(TesterResult) /\ TesterResult.body.tests_passed = TRUE))]_vars
    /\ [][calls'["Deployer"] # calls["Deployer"]
            => (state = "TestsPassed?" /\ state' = "Deployer")]_vars
    /\ [](calls["Deployer"] <= 1)

\* C6: after a fatal Deployer result the execution never ends in the success
\* state BuildSucceeded.
C6_FatalDeployerNeverSucceeds ==
    (execStatus # "NONE" /\ data.deployer_result # Null /\ Fatal(data.deployer_result))
        => (state # "BuildSucceeded" /\ execStatus # "SUCCEEDED")

\* C7: after a fatal Scout result (5xx in its envelope) the execution is failed
\* with cause ScoutError and Architect has not been invoked.
C7_FatalScoutEndsScoutError ==
    (execStatus # "NONE" /\ data.scout_result # Null /\ Fatal(data.scout_result))
        => (/\ execStatus = "FAILED"
            /\ execError = "ScoutError"
            /\ calls["Architect"] = 0)

\* C8: a fatal Architect result (5xx in its envelope), in the first or in any
\* later iteration, fails the execution with cause ArchitectError, and neither
\* the Splitter nor a Builder is invoked afterwards.
C8_FatalArchitectEndsArchitectError ==
    [][(/\ Running
        /\ state = "Architect"
        /\ state' # state
        /\ Fatal(data'.architect_result))
       => (/\ execStatus' = "FAILED"
           /\ execError' = "ArchitectError"
           /\ calls' = calls)]_vars

\* C9: in every reachable state, every build record has
\* current_iteration <= max_iterations.
C9_IterationWithinMax ==
    \A b \in DOMAIN table : table[b].current_iteration <= table[b].max_iterations

\* C10: during a parallel-build round, never more than 6 Builder invocations
\* of the build are in flight, whatever the number of FileTasks.
C10_AtMostSixBuildersInFlight ==
    Cardinality(mapRunning) <= 6

\* C10 witness: six Builders in flight while a further FileTask waits to start
C10_Witness ==
    /\ Running
    /\ state = "ParallelBuilders"
    /\ Cardinality(mapRunning) = 6
    /\ mapNext <= data.build_tasks.total_files

\* C11: a round in which a FileTask came back failed does not invoke Tester
\* (the round fails the build instead).
C11_FailedFileTaskSkipsTester ==
    [][calls'["Tester"] = calls["Tester"] + 1 => ~mapFailed]_vars

\* C12: Tester is invoked only from the Map state, once every FileTask of the
\* round has been started and none is still running.
C12_TesterAfterEveryBuilderReturned ==
    [][calls'["Tester"] = calls["Tester"] + 1 =>
          /\ state = "ParallelBuilders"
          /\ mapNext > data.build_tasks.total_files
          /\ mapRunning = {}]_vars

\* C12 witness: Tester invoked after a round of several FileTasks
C12_Witness ==
    /\ Running
    /\ state = "Tester"
    /\ data.build_tasks.total_files >= 2
    /\ mapNext > data.build_tasks.total_files
    /\ mapRunning = {}

---------------------------------------------------------------------------
(* Claims about the lifecycle API *)

\* the statuses the specification calls terminal
TerminalStatuses == {"passed", "failed", "cancelled"}

\* the stored status of the build, "none" without a record
StoredStatus == IF BuildId \in DOMAIN table THEN table[BuildId].status ELSE "none"

\* the step in which cancel_build leaves its get_item and checks
CancelChecked == cancelPc = "idle" /\ <<cancelPc', cancelLog'>> # <<cancelPc, cancelLog>>

\* the last response of cancel_build
LastCancel == cancelLog[Len(cancelLog)]

\* C13: a cancel that finds a terminal stored status (passed, failed,
\* cancelled) answers 400, sends no stop request and leaves the table alone.
C13_TerminalCancelRejected ==
    [][(CancelChecked /\ StoredStatus \in TerminalStatuses) =>
          /\ cancelLog' = Append(cancelLog, CancelResponse(400, "none"))
          /\ cancelPc' = "idle"
          /\ stopRequests' = stopRequests
          /\ table' = table]_vars

\* C14: the cancel that follows a successful cancel (200) is answered 400
\* without a stop request, and after a successful cancel the stored status
\* is cancelled.
C14_SecondCancelInvalidState ==
    /\ \A i \in 1..Len(cancelLog) :
         cancelLog[i].statusCode = 200 =>
           /\ StoredStatus = "cancelled"
           /\ i < Len(cancelLog) => cancelLog[i + 1] = CancelResponse(400, "none")
    /\ (\E i \in 1..Len(cancelLog) : cancelLog[i].statusCode = 200) =>
           stopRequests = Cardinality({i \in 1..Len(cancelLog) : cancelLog[i].stop # "none"})
                          + (IF cancelPc = "update_item" THEN 1 ELSE 0)

\* C14 witness: a running build cancelled twice: 200, then 400
C14_Witness ==
    /\ Len(cancelLog) = 2
    /\ cancelLog[1] = CancelResponse(200, "stopped")
    /\ cancelLog[2] = CancelResponse(400, "none")
    /\ execStatus = "ABORTED"
    /\ StoredStatus = "cancelled"
    /\ stopRequests = 1

\* C15: a cancel that finds no record answers 404, sends no stop request and
\* leaves the table as it is.
C15_CancelUnknownBuildNotFound ==
    [][(CancelChecked /\ BuildId \notin DOMAIN table) =>
          /\ cancelLog' = Append(cancelLog, CancelResponse(404, "none"))
          /\ cancelPc' = "idle"
          /\ stopRequests' = stopRequests
          /\ table' = table]_vars

\* C15 witness: 404 answered, no record, no stop request
C15_Witness ==
    /\ cancelLog # <<>>
    /\ LastCancel = CancelResponse(404, "none")
    /\ DOMAIN table = {}
    /\ stopRequests = 0

C17_CancelUpdatesStatusAndUpdatedAtOnly ==
    [][(cancelPc = "update_item" /\ cancelPc' # cancelPc) =>
          /\ BuildId \in DOMAIN table
          /\ table' = [table EXCEPT ![BuildId] =
                          [@ EXCEPT !.status = "cancelled", !.updated_at = clock]]
          /\ cancelLog' = Append(cancelLog, CancelResponse(200, "stopped"))]_vars

\* C17 witness: a build cancelled some time after it was created
C17_Witness ==
    /\ cancelLog # <<>>
    /\ LastCancel.statusCode = 200
    /\ StoredStatus = "cancelled"
    /\ table[BuildId].updated_at > table[BuildId].created_at
    /\ table[BuildId].task = "hello"

\* C18: once the stored status is passed, failed or cancelled, no step
\* changes it.
C18_TerminalStatusAbsorbing ==
    [][(StoredStatus \in TerminalStatuses) => (StoredStatus' = StoredStatus)]_vars

\* C19: a start request is answered 400 without writing a record or starting
\* an execution, and no record and no execution input has an empty task.
C19_MissingTaskCreatesNothing ==
    /\ [](\A id \in DOMAIN table : table[id].task # "")
    /\ [](execStatus # "NONE" => data.task # "")
    /\ [][(response' # response /\ response'.statusCode = 400) =>
            /\ table' = table
            /\ execStatus' = execStatus
            /\ apiPc' = apiPc]_vars

\* C19 witness: 400 answered, no record, no execution
C19_Witness ==
    /\ response # Null
    /\ response.statusCode = 400
    /\ DOMAIN table = {}
    /\ execStatus = "NONE"

\* the max_iterations a start request asks for: the given value, or 3
RequestedMaxIterations(request) ==
    IF request = Null THEN 3 ELSE request.value

\* C20: the put_item of a start writes one new record with status initiated,
\* current_iteration 0, the requested max_iterations and created_at =
\* updated_at; the 202 step starts the one execution with that build_id and
\* max_iterations in its input and returns {build_id, status: initiated}.
C20_StartCreatesRecordAndExecution ==
    /\ [][(apiPc = "idle" /\ apiPc' = "start_execution") =>
            LET id == apiLocal'.build_id IN
            /\ id \notin DOMAIN table
            /\ DOMAIN table' = DOMAIN table \cup {id}
            /\ \A other \in DOMAIN table : table'[other] = table[other]
            /\ table'[id].build_id = id
            /\ table'[id].status = "initiated"
            /\ table'[id].current_iteration = 0
            /\ table'[id].max_iterations = RequestedMaxIterations(apiLocal'.request)
            /\ table'[id].created_at = table'[id].updated_at
            /\ table'[id].created_at = clock
            /\ table'[id].task # ""
            /\ execStatus' = execStatus]_vars
    /\ [][(response' # response /\ response'.statusCode = 202) =>
            /\ apiPc = "start_execution"
            /\ execStatus = "NONE"
            /\ execStatus' = "RUNNING"
            /\ data'.build_id = apiLocal.build_id
            /\ data'.task = table[apiLocal.build_id].task
            /\ data'.max_iterations = RequestedMaxIterations(apiLocal.request)
            /\ data'.max_iterations = table[apiLocal.build_id].max_iterations
            /\ response'.build_id = apiLocal.build_id
            /\ response'.status = "initiated"
            /\ table' = table]_vars
    /\ [][execStatus = "NONE" /\ execStatus' # "NONE" =>
            response' # response /\ response'.statusCode = 202]_vars

\* C20 witness: a start with max_iterations 1 answered 202
C20_Witness ==
    /\ response # Null
    /\ response.statusCode = 202
    /\ response.build_id = BuildId
    /\ StoredStatus = "initiated"
    /\ table[BuildId].max_iterations = 1
    /\ execStatus = "RUNNING"
    /\ state = "Scout"
    /\ data.max_iterations = 1

---------------------------------------------------------------------------
(* Claims about the store, the identifiers and termination *)

C30_CreateNeverOverwrites ==
    [][(apiPc = "idle" /\ apiPc' = "start_execution") =>
          \A id \in DOMAIN table : table'[id] = table[id]]_vars

\* C27: every step that creates or changes a record leaves its updated_at at
\* the time of that step.
C27_EveryMutationRefreshesUpdatedAt ==
    [][\A id \in DOMAIN table' :
          IF id \in DOMAIN table
            THEN table'[id] # table[id] => table'[id].updated_at = clock
            ELSE table'[id].updated_at = clock]_vars

\* C28: every record has max_iterations >= 1, and so has the input of every
\* execution.
C28_MaxIterationsAtLeastOne ==
    /\ \A id \in DOMAIN table : table[id].max_iterations >= 1
    /\ \A i \in 1..Len(executions) : executions[i].input.max_iterations >= 1

\* the status values of a build and the edges of the status machine; a fatal
\* error or a cancel may end the build from any status that is not terminal
StatusVocabulary ==
    {"initiated", "scouting", "architecting", "splitting", "building", "testing",
     "self_healing", "deploying", "passed", "failed", "cancelled"}

StatusEdges ==
    {<<"none", "initiated">>, <<"initiated", "scouting">>,
     <<"scouting", "architecting">>, <<"architecting", "splitting">>,
     <<"splitting", "building">>, <<"building", "testing">>,
     <<"testing", "self_healing">>, <<"self_healing", "architecting">>,
     <<"testing", "deploying">>, <<"deploying", "passed">>}
    \cup {<<s, t>> : s \in StatusVocabulary \ TerminalStatuses, t \in {"failed", "cancelled"}}

\* the statuses that a path of the status machine reaches from status s in
\* one edge or more
RECURSIVE ReachedFrom(_, _)
ReachedFrom(frontier, seen) ==
    LET next == {e[2] : e \in {e \in StatusEdges : e[1] \in frontier}} \ seen
    IN  IF next = {} THEN seen ELSE ReachedFrom(next, seen \cup next)

StatusPathTo(s) == ReachedFrom({s}, {})

\* C23: every change of the stored status of a build follows a path of the
\* status machine (statuses the store did not show in between are allowed).
C23_StatusFollowsStateMachine ==
    [][(StoredStatus' # StoredStatus) => (StoredStatus' \in StatusPathTo(StoredStatus))]_vars

\* C24: whenever the execution has ended in failure, the record of the build
\* has status failed and an error.
C24_FailedExecutionIsRecorded ==
    (execStatus = "FAILED") =>
        /\ BuildId \in DOMAIN table
        /\ table[BuildId].status = "failed"
        /\ table[BuildId].error # Null

\* the fields of a record that are fixed at creation
ImmutableFields == {"build_id", "task", "mode", "max_iterations", "created_at"}

ImmutablePart(item) == [f \in ImmutableFields \cap DOMAIN item |-> item[f]]

\* C29: no step removes a record or changes its build_id, task, mode,
\* max_iterations or created_at.
C29_CreationFieldsNeverChange ==
    [][\A id \in DOMAIN table :
          /\ id \in DOMAIN table'
          /\ ImmutablePart(table'[id]) = ImmutablePart(table[id])]_vars

\* C29 witness: a record that was marked failed after its creation, when the
\* execution could not be started, still has what it was created with
C29_Witness ==
    /\ BuildId \in DOMAIN table
    /\ table[BuildId].status = "failed"
    /\ table[BuildId].error = [message |-> "start_execution"]
    /\ table[BuildId].created_at < clock
    /\ table[BuildId].task = "hello"

\* a step in which get_build_status or list_builds answers
ReadAnswered == readResult' # readResult

\* C25: get answers 200 with the whole record as it is stored when the id has
\* a record and 404 when it has none; a get or list step changes no record.
C25_GetReturnsRecordReadsWriteNothing ==
    [][ReadAnswered =>
          /\ table' = table
          /\ (readResult'.op = "get") =>
                IF readResult'.build_id \in DOMAIN table
                  THEN /\ readResult'.response.statusCode = 200
                       /\ readResult'.response.item = table[readResult'.build_id]
                  ELSE readResult'.response.statusCode = 404]_vars

\* C25 witness: a get answered 200 with a record that was cancelled after its
\* creation, while another id has no record
C25_Witness ==
    /\ readResult # Null
    /\ readResult.op = "get"
    /\ readResult.response.statusCode = 200
    /\ readResult.response.item.status = "cancelled"
    /\ DOMAIN table # BuildIds

\* a step in which list_builds answers a request that has a status filter
FilteredListAnswered ==
    /\ readResult # Null
    /\ readResult.op = "list"
    /\ readResult.filter # Null
    /\ readResult.filter.value # ""

\* C26: the answer to a list with a status filter holds only records of the
\* table whose status is the filter, no record twice, in the order of
\* created_at descending, at most 50 of them, and count is their number.
C26_FilteredListSortedAndLimited ==
    FilteredListAnswered =>
        LET builds == readResult.response.builds
        IN  /\ \A i \in 1..Len(builds) :
                 /\ builds[i].build_id \in DOMAIN table
                 /\ builds[i] = table[builds[i].build_id]
                 /\ builds[i].status = readResult.filter.value
            /\ \A i, j \in 1..Len(builds) :
                 /\ (i < j) => (builds[i].created_at >= builds[j].created_at)
                 /\ (i # j) => (builds[i].build_id # builds[j].build_id)
            /\ Len(builds) <= 50
            /\ readResult.response.count = Len(builds)

\* C26 witness: more than 50 records have the status asked for and one has
\* another; 50 are returned, the first created after the last
C26_Witness ==
    /\ FilteredListAnswered
    /\ readResult.filter.value = "failed"
    /\ Cardinality({id \in DOMAIN table : table[id].status = "failed"}) > 50
    /\ \E id \in DOMAIN table : table[id].status # "failed"
    /\ readResult.response.count = 50
    /\ readResult.response.builds[1].created_at > readResult.response.builds[50].created_at

---------------------------------------------------------------------------
(* Claims about the status vocabulary, cancellation and the end of a build *)

\* C32: the stored status of every build is one of the ten values of the
\* vocabulary, and cancel refuses a build exactly when its stored status is
\* one of the terminal values passed, failed, cancelled.
C32_VocabularyAndTerminalCheck ==
    /\ [](\A id \in DOMAIN table : table[id].status \in StatusVocabulary \ {"deploying"})
    /\ [][CancelChecked =>
            ((cancelLog' = Append(cancelLog, CancelResponse(400, "none")))
                <=> (StoredStatus \in TerminalStatuses))]_vars

\* some cancel request of the build was answered 200
CancelSucceeded == \E i \in 1..Len(cancelLog) : cancelLog[i].statusCode = 200

\* C36: once a cancel has answered 200 the execution of the build is not
\* running and never runs again, and no step invokes a stage or a Builder.
C36_NoStageAfterCancelSucceeded ==
    /\ [](CancelSucceeded => execStatus \in {"ABORTED", "SUCCEEDED", "FAILED"})
    /\ [][CancelSucceeded => (calls' = calls /\ mapNext' = mapNext)]_vars

\* C36 witness: a cancel answered 200 after it stopped the execution while a
\* Builder of the round was in flight and a FileTask had not started yet
C36_Witness ==
    /\ CancelSucceeded
    /\ execStatus = "ABORTED"
    /\ state = "ParallelBuilders"
    /\ mapNext = 2
    /\ data.build_tasks.total_files >= 1

\* C37: once the execution of a build whose start answered 202 has ended, the
\* stored status is terminal, and it is passed only if the execution succeeded.
C37_StoreAgreesWithEndedExecution ==
    (execStatus \in {"SUCCEEDED", "FAILED", "ABORTED", "TIMED_OUT"} /\ apiPc = "idle" /\ cancelPc = "idle") =>
        /\ StoredStatus \in TerminalStatuses
        /\ (StoredStatus = "passed") => (execStatus = "SUCCEEDED")

\* the step in which start_build answers that the execution could not be started
StartFailed == apiPc = "start_execution" /\ apiPc' = "idle" /\ response'.statusCode = 500

---------------------------------------------------------------------------
(* Claims about retries and the order of the stages *)

\* a step in which the task of the current state is retried after a service
\* exception, and one in which the execution fails with the exception
TaskRetried == retries' = retries + 1

RetriesExhausted == execError # "Lambda.ServiceException" /\ execError' = "Lambda.ServiceException"

\* a step that invokes Architect again through the self-healing loop
ArchitectReinvoked == calls["Architect"] >= 1 /\ calls'["Architect"] = calls["Architect"] + 1

\* C31: a task is retried at most MaxAttempts times after service exceptions,
\* the next exception fails the execution; a retry invokes no other stage and
\* writes nothing; and Architect is invoked again only at the iteration check,
\* after a Tester result with tests_passed = false.
C31_ServiceFailureNeverSelfHeals ==
    /\ [](retries <= MaxAttempts)
    /\ [][RetriesExhausted =>
            (retries = MaxAttempts /\ execStatus' = "FAILED" /\ calls' = calls)]_vars
    /\ [][TaskRetried => (calls' = calls /\ state' = state /\ table' = table)]_vars
    /\ [][ArchitectReinvoked =>
            /\ state = "MaxIterationsReached?"
            /\ retries = 0
            /\ TesterResult.body.tests_passed = FALSE]_vars

Invoked(stage) == calls'[stage] = calls[stage] + 1

\* C34: Architect is invoked from Scout or from the iteration check after the
\* Tester of the cycle before has returned; the Splitter after Architect; the
\* Builders of a round after the Splitter of the same cycle; Tester once every
\* Builder of the round has returned, one Splitter call and one round per
\* Tester call.
C34_StagesInOrderWithinIteration ==
    /\ [][Invoked("Architect") =>
            /\ state \in {"Scout", "MaxIterationsReached?"}
            /\ (state = "Scout") => (calls["Architect"] = 0)
            /\ calls["PrepareParallelBuilders"] = calls["Architect"]
            /\ calls["Tester"] = calls["Architect"]]_vars
    /\ [][Invoked("PrepareParallelBuilders") =>
            /\ state = "Architect"
            /\ calls["PrepareParallelBuilders"] + 1 = calls["Architect"]
            /\ calls["Tester"] + 1 = calls["Architect"]]_vars
    /\ [][(mapNext' = mapNext + 1) =>
            /\ state = "ParallelBuilders"
            /\ calls["PrepareParallelBuilders"] = calls["Architect"]
            /\ calls["Tester"] + 1 = calls["Architect"]]_vars
    /\ [][Invoked("Tester") =>
            /\ state = "ParallelBuilders"
            /\ mapNext = data.build_tasks.total_files + 1
            /\ mapRunning = {}
            /\ calls["PrepareParallelBuilders"] = calls["Architect"]
            /\ calls["Tester"] + 1 = calls["Architect"]]_vars

\* C34 witness: the Tester of the second cycle runs after a second Splitter
\* call and a second round of three FileTasks
C34_Witness ==
    /\ Running
    /\ state = "Tester"
    /\ calls["Tester"] = 2
    /\ calls["PrepareParallelBuilders"] = 2
    /\ calls["Architect"] = 2
    /\ data.build_tasks.total_files = 3
    /\ mapNext = 4

\* C35: an execution has invoked Scout exactly once; the first Architect
\* invocation follows the return of Scout; the self-healing loop invokes
\* Architect and leaves the number of Scout invocations alone.
C35_ScoutInvokedOnce ==
    /\ [](IF execStatus = "NONE" THEN calls["Scout"] = 0 ELSE calls["Scout"] = 1)
    /\ [][(calls["Architect"] = 0 /\ Invoked("Architect")) =>
            (state = "Scout" /\ calls["Scout"] = 1)]_vars
    /\ [][(Running /\ state = "MaxIterationsReached?" /\ state' # state /\ execStatus' = "RUNNING") =>
            (state' = "Architect" /\ Invoked("Architect") /\ calls'["Scout"] = calls["Scout"])]_vars

\* C35 witness: Architect runs for the third time, Scout was invoked once
C35_Witness ==
    /\ Running
    /\ state = "Architect"
    /\ calls["Architect"] = 3
    /\ calls["Scout"] = 1

\* the cancel requests answered so far that were answered with the status
Answered(code) == {i \in 1..Len(cancelLog) : cancelLog[i].statusCode = code}

\* C39: of the cancel requests for a build at most one is answered 200, the
\* others are refused with 400 (unless they came before the record existed or
\* their stop request met another service error), and once the stored status
\* is cancelled no cancel writes the record again.
C39_ConcurrentCancelsOneSucceeds ==
    /\ [](Cardinality(Answered(200)) <= 1)
    /\ [](Answered(200) # {} =>
            \A i \in 1..Len(cancelLog) :
                \/ i \in Answered(200) \cup Answered(400) \cup Answered(404)
                \/ cancelLog[i].stop = "error")
    /\ [][(StoredStatus = "cancelled") => (table' = table)]_vars

====
